---- MODULE Spec2Model ----
(***************************************************************************)
(* Car-service booking marketplace (Django + Django REST framework).       *)
(* The model covers the booking lifecycle (slot capacity, status changes,  *)
(* cancellation fee), dealer payouts and registration, as the request      *)
(* handlers, model methods and signals of the repository implement them.   *)
(*                                                                         *)
(* Database rows are the state.  A request handler is one action; a        *)
(* transaction.atomic() block that raises leaves the rows it touched       *)
(* as they were.                                                           *)
(***************************************************************************)
EXTENDS Integers, Sequences, FiniteSets, TLC

VARIABLES
    slots,        \* ServiceSlot rows: slot id -> [available_capacity, is_active, is_blocked]
    bookings,     \* Booking rows, pk = position in the sequence
    history,      \* BookingStatusHistory rows, in creation order
    last,         \* the request handled last and its response
    reqs,         \* booking requests in flight (interleaved handling)
    balance,      \* DealerProfile.current_balance of each dealer
    payouts,      \* DealerPayout rows, pk = position in the sequence
    balance_transactions,  \* BalanceTransaction rows, in creation order
    accounts,     \* User rows: [username, email]
    customer_profiles,     \* usernames that have a CustomerProfile row
    dealer_profiles,       \* username -> business_license of its DealerProfile row
    fee,          \* one evaluation of Booking.get_cancellation_fee: input and result
    created_slots \* ServiceSlot rows created at run time, pk = position in the sequence

vars == <<slots, bookings, history, last, reqs, balance, payouts,
          balance_transactions, accounts, customer_profiles, dealer_profiles, fee,
          created_slots>>

bookingVars == <<slots, bookings, history>>
payoutVars == <<balance, payouts, balance_transactions>>
accountVars == <<accounts, customer_profiles, dealer_profiles>>

----------------------------------------------------------------------------
(* Bounds of the model *)

MaxBookings == 1
MaxRequests == 2
MaxHours == 3
MaxPayouts == 2
OpeningBalance == 3
TicksPerHour == 2
MaxCapacity == 2

----------------------------------------------------------------------------
(* Fixed rows: users, vehicles, services *)

None == "none"

Customers == {"c1", "c2"}
Dealers == {"d1", "d2"}
Users == Customers \cup Dealers

\* the users who send requests in the model
Requesters == {"c1", "c2", "d1"}

\* hasattr(user, 'dealer_profile')
HasDealerProfile(user) == user \in Dealers

Vehicles == {"v1", "v2"}
\* Vehicle.owner
VehicleOwner(v) == IF v = "v1" THEN "c1" ELSE "c2"

SlotIds == {"s1", "s2"}
\* ServiceSlot.service.dealer
SlotDealer(s) == IF s = "s1" THEN "d1" ELSE "d2"

\* an id that names no row
NoSuchId == "sX"

Statuses == {"pending", "confirmed", "in_progress", "completed",
             "cancelled_by_customer", "cancelled_by_dealer", "no_show", "expired"}

\* request.data.get('reason', '')
Reasons == {"changed plans"}

----------------------------------------------------------------------------
(* ServiceSlot *)

\* ServiceSlot.is_available
is_available(slot) ==
    slot.is_active /\ ~slot.is_blocked /\ slot.available_capacity > 0

----------------------------------------------------------------------------
(* Booking.clean: the status transition check *)

\* the valid_transitions dict of Booking.clean
valid_transitions ==
    [pending |-> {"confirmed", "cancelled_by_customer", "cancelled_by_dealer", "expired"},
     confirmed |-> {"in_progress", "cancelled_by_customer", "cancelled_by_dealer"},
     in_progress |-> {"completed", "no_show"}]

\* a check that also runs on unsaved bookings and forgets the terminal statuses
clean_always(pk, old_status, new_status) ==
    \/ old_status \notin DOMAIN valid_transitions
    \/ new_status \notin valid_transitions[old_status]

\* Booking.clean: TRUE when it raises ValidationError.  pk = 0 is an unsaved
\* booking (self.pk is None); old_status is the status of the stored row.
clean(pk, old_status, new_status) ==
    IF pk # 0
    THEN /\ old_status \in DOMAIN valid_transitions
         /\ new_status \notin valid_transitions[old_status]
    ELSE FALSE

----------------------------------------------------------------------------
(* BookingListCreateView.post *)

\* validate_required_fields: the names of the fields that are missing
validate_required_fields(data, fields) == {f \in fields : data[f] = None}

\* The context the view hands to BookingSerializer: BookingSerializer(data=request.data)
\* passes none, so the serializer's context is the empty dict.
BookingSerializerContext == {}

\* BookingSerializer.is_valid: service_slot_id and vehicle_id are required
\* write-only fields; rest_valid stands for the other required fields of the
\* model (amounts, deadline, scheduled time) being present and well-formed.
BookingSerializerIsValid(data) ==
    /\ data.service_slot_id # None
    /\ data.vehicle_id # None
    /\ data.rest_valid

\* BookingSerializer.create reads self.context['request']: TRUE when that raises KeyError
BookingSerializerCreateRaises(context) == "request" \notin context

\* The rows BookingSerializer.create inserts when it does not raise:
\* Booking.objects.create(**validated_data) with customer from the save() kwargs.
BookingSerializerCreate(data, user) ==
    [customer |-> user,
     service_slot |-> data.service_slot_id,
     vehicle |-> data.vehicle_id,
     status |-> IF data.status = None THEN "pending" ELSE data.status,
     cancellation_reason |-> ""]

\* an availability check that lets a slot without capacity through
SlotRefusedInactiveOnly(slot) == ~slot.is_active \/ slot.available_capacity < 0

\* The availability check of BookingListCreateView.post: TRUE when the slot is refused
SlotRefused(slot) == ~slot.is_active \/ slot.available_capacity <= 0

\* The handler with the capacity decrement moved in front of the transaction:
\* the decrement is saved as soon as the two checks pass.
BookingListCreateViewPostResultEarlyDecrement(user, data) ==
    LET same == [resp |-> "", slots |-> slots, bookings |-> bookings]
        taken == IF data.service_slot \in DOMAIN slots
                 THEN [slots EXCEPT ![data.service_slot].available_capacity = @ - 1]
                 ELSE slots
    IN
    IF validate_required_fields(data, {"service_slot", "vehicle"}) # {}
    THEN [same EXCEPT !.resp = "missing_fields"]
    ELSE IF data.service_slot \notin DOMAIN slots
    THEN [same EXCEPT !.resp = "invalid_slot"]
    ELSE IF SlotRefused(slots[data.service_slot])
    THEN [same EXCEPT !.resp = "slot_unavailable"]
    ELSE IF ~(data.vehicle \in Vehicles /\ VehicleOwner(data.vehicle) = user)
    THEN [same EXCEPT !.resp = "invalid_vehicle"]
    ELSE IF ~BookingSerializerIsValid(data)
    THEN [same EXCEPT !.resp = "serializer_errors", !.slots = taken]
    ELSE IF BookingSerializerCreateRaises(BookingSerializerContext)
    THEN [same EXCEPT !.resp = "booking_failed", !.slots = taken]
    ELSE IF data.service_slot_id \notin DOMAIN slots \/ data.vehicle_id \notin Vehicles
    THEN [same EXCEPT !.resp = "booking_failed", !.slots = taken]
    ELSE [resp |-> "created",
          slots |-> taken,
          bookings |-> Append(bookings, BookingSerializerCreate(data, user))]

\* The whole handler: the response and the rows after it
BookingListCreateViewPostResult(user, data) ==
    LET same == [resp |-> "", slots |-> slots, bookings |-> bookings] IN
    IF validate_required_fields(data, {"service_slot", "vehicle"}) # {}
    THEN [same EXCEPT !.resp = "missing_fields"]
    ELSE IF data.service_slot \notin DOMAIN slots
    THEN [same EXCEPT !.resp = "invalid_slot"]
    ELSE IF SlotRefused(slots[data.service_slot])
    THEN [same EXCEPT !.resp = "slot_unavailable"]
    ELSE IF ~(data.vehicle \in Vehicles /\ VehicleOwner(data.vehicle) = user)
    THEN [same EXCEPT !.resp = "invalid_vehicle"]
    ELSE IF ~BookingSerializerIsValid(data)
    THEN [same EXCEPT !.resp = "serializer_errors"]
    ELSE IF BookingSerializerCreateRaises(BookingSerializerContext)
    THEN \* KeyError inside transaction.atomic(): rolled back, caught by except Exception
         [same EXCEPT !.resp = "booking_failed"]
    ELSE IF data.service_slot_id \notin DOMAIN slots \/ data.vehicle_id \notin Vehicles
    THEN \* foreign key violation when the atomic block commits: rolled back
         [same EXCEPT !.resp = "booking_failed"]
    ELSE [resp |-> "created",
          slots |-> [slots EXCEPT ![data.service_slot].available_capacity = @ - 1],
          bookings |-> Append(bookings, BookingSerializerCreate(data, user))]

\* Request bodies.  The two fields the view reads (service_slot, vehicle) range
\* over every kind of value; the fields the serializer reads come in four shapes.
SlotRefs == SlotIds \cup {NoSuchId, None}
VehicleRefs == Vehicles \cup {None}
BookingBodies ==
    UNION {
        { [service_slot |-> s, vehicle |-> v, service_slot_id |-> s, vehicle_id |-> v,
           status |-> None, rest_valid |-> TRUE],
          [service_slot |-> s, vehicle |-> v, service_slot_id |-> "s2", vehicle_id |-> "v2",
           status |-> "confirmed", rest_valid |-> TRUE],
          [service_slot |-> s, vehicle |-> v, service_slot_id |-> None, vehicle_id |-> None,
           status |-> None, rest_valid |-> TRUE],
          [service_slot |-> s, vehicle |-> v, service_slot_id |-> s, vehicle_id |-> v,
           status |-> None, rest_valid |-> FALSE] }
        : s \in SlotRefs, v \in VehicleRefs }

\* the record kept of the request handled last
Handled(op, resp, user, pk, slot) ==
    [op |-> op, resp |-> resp, user |-> user, pk |-> pk, slot |-> slot, arg |-> None]

BookingListCreateViewPost ==
    /\ UNCHANGED <<reqs, payoutVars, accountVars, fee, created_slots>>
    /\ \E user \in {"c1"}, data \in BookingBodies :
        LET r == BookingListCreateViewPostResult(user, data) IN
        /\ Len(r.bookings) <= MaxBookings
        /\ slots' = r.slots
        /\ bookings' = r.bookings
        /\ history' = history
        /\ last' = Handled("booking_post", r.resp,
                           IF r.resp = "created" THEN user ELSE None,
                           IF r.resp = "created" THEN Len(r.bookings) ELSE 0,
                           data.service_slot)

----------------------------------------------------------------------------
(* BookingCancelView.post *)

\* a cancel that gives back no capacity
ReleasedCapacityNone(cap) == cap

\* slot.available_capacity += 1
ReleasedCapacity(cap) == cap + 1

\* a cancel that accepts a booking in any status
CancelRefusedNever(status) == FALSE

\* obj.status not in ['pending', 'confirmed']: TRUE when the cancel is refused
CancelRefused(status) == status \notin {"pending", "confirmed"}

BookingCancelViewPost ==
    /\ UNCHANGED <<reqs, payoutVars, accountVars, fee, created_slots>>
    /\ \E user \in Requesters, pk \in 1..MaxBookings, reason \in Reasons :
        \* get_object_or_404(Booking, pk=pk, customer=request.user): Http404 is
        \* caught by the handler's except Exception
        IF ~(pk \in DOMAIN bookings /\ bookings[pk].customer = user)
        THEN /\ UNCHANGED <<slots, bookings, history>>
             /\ last' = Handled("booking_cancel", "cancel_failed", None, 0, None)
        ELSE IF CancelRefused(bookings[pk].status)
        THEN /\ UNCHANGED <<slots, bookings, history>>
             /\ last' = Handled("booking_cancel", "cannot_cancel", None, 0, None)
        ELSE LET s == bookings[pk].service_slot IN
             /\ bookings' = [bookings EXCEPT ![pk].status = "cancelled_by_customer",
                                             ![pk].cancellation_reason = reason]
             /\ slots' = [slots EXCEPT ![s].available_capacity = ReleasedCapacity(@)]
             \* old_status=obj.status is read after obj.status was assigned
             /\ history' = Append(history,
                                  [booking |-> pk,
                                   old_status |-> bookings'[pk].status,
                                   new_status |-> "cancelled_by_customer"])
             /\ last' = Handled("booking_cancel", "ok", user, pk, s)

----------------------------------------------------------------------------
(* BookingConfirmView.post *)

\* ensure_dealer: TRUE when it raises PermissionDenied
ensure_dealer(user) == ~HasDealerProfile(user)

\* a confirm that accepts a booking in any status
ConfirmRefusedNever(status) == FALSE

\* obj.status != 'pending': TRUE when the confirm is refused
ConfirmRefused(status) == status # "pending"

BookingConfirmViewPost ==
    /\ UNCHANGED <<reqs, payoutVars, accountVars, fee, created_slots>>
    /\ \E user \in Requesters, pk \in 1..MaxBookings :
        IF ensure_dealer(user)
        THEN /\ UNCHANGED <<slots, bookings, history>>
             /\ last' = Handled("booking_confirm", "permission_denied", None, 0, None)
        ELSE IF ~(pk \in DOMAIN bookings
                  /\ SlotDealer(bookings[pk].service_slot) = user)
        THEN /\ UNCHANGED <<slots, bookings, history>>
             /\ last' = Handled("booking_confirm", "confirm_failed", None, 0, None)
        ELSE IF ConfirmRefused(bookings[pk].status)
        THEN /\ UNCHANGED <<slots, bookings, history>>
             /\ last' = Handled("booking_confirm", "cannot_confirm", None, 0, None)
        ELSE /\ bookings' = [bookings EXCEPT ![pk].status = "confirmed"]
             /\ history' = Append(history,
                                  [booking |-> pk, old_status |-> "pending",
                                   new_status |-> "confirmed"])
             /\ UNCHANGED slots
             /\ last' = Handled("booking_confirm", "ok", user, pk,
                                bookings[pk].service_slot)

----------------------------------------------------------------------------
(* DealerSlotDetailView.patch: the dealer edits a slot of their own.  The body
   is partial: it sets available_capacity or is_active. *)

SlotPatches ==
    [field : {"available_capacity"}, value : 0..MaxCapacity]
        \cup [field : {"is_active"}, value : BOOLEAN]

DealerSlotDetailViewPatch ==
    /\ UNCHANGED <<reqs, payoutVars, accountVars, fee, created_slots>>
    /\ \E user \in {"c1", "d1"}, s \in SlotIds, body \in SlotPatches :
        IF ensure_dealer(user)
        THEN /\ UNCHANGED <<slots, bookings, history>>
             /\ last' = Handled("slot_patch", "permission_denied", None, 0, None)
        ELSE IF SlotDealer(s) # user
        THEN /\ UNCHANGED <<slots, bookings, history>>
             /\ last' = Handled("slot_patch", "update_failed", None, 0, None)
        ELSE /\ slots' = [slots EXCEPT ![s] =
                            IF body.field = "available_capacity"
                            THEN [@ EXCEPT !.available_capacity = body.value]
                            ELSE [@ EXCEPT !.is_active = body.value]]
             /\ UNCHANGED <<bookings, history>>
             /\ last' = Handled("slot_patch", "ok", user, 0, s)

----------------------------------------------------------------------------
(* BookingAdmin: the admin site's add and change forms for Booking.  Both run
   Booking.clean (model form validation) before they save. *)

\* the statuses the add form is submitted with in Spec
AddStatuses == {"pending", "confirmed", "completed"}

BookingAdminAddWith(customers, statuses) ==
    /\ UNCHANGED <<reqs, payoutVars, accountVars, fee, created_slots>>
    /\ \E customer \in customers, s \in SlotIds, st \in statuses :
        /\ Len(bookings) < MaxBookings
        /\ IF clean(0, st, st)
           THEN /\ UNCHANGED <<slots, bookings, history>>
                /\ last' = [Handled("admin_add", "validation_error", "admin", 0, s)
                               EXCEPT !.arg = st]
           ELSE /\ bookings' = Append(bookings,
                                      [customer |-> customer, service_slot |-> s,
                                       vehicle |-> "v1", status |-> st,
                                       cancellation_reason |-> ""])
                /\ UNCHANGED <<slots, history>>
                /\ last' = [Handled("admin_add", "ok", "admin", Len(bookings) + 1, s)
                               EXCEPT !.arg = st]

BookingAdminAdd == BookingAdminAddWith({"c1"}, AddStatuses)

\* the add form submitted with any status (used with the change form below)
BookingAdminAddAny == BookingAdminAddWith(Customers, Statuses)

\* change form: Booking.clean compares the submitted status with the stored one
BookingAdminChange ==
    /\ UNCHANGED <<reqs, payoutVars, accountVars, fee, created_slots>>
    /\ \E pk \in DOMAIN bookings, st \in Statuses :
        IF clean(pk, bookings[pk].status, st)
        THEN /\ UNCHANGED <<slots, bookings, history>>
             /\ last' = [Handled("admin_change", "validation_error", "admin", pk, None)
                            EXCEPT !.arg = st]
        ELSE /\ bookings' = [bookings EXCEPT ![pk].status = st]
             /\ UNCHANGED <<slots, history>>
             /\ last' = [Handled("admin_change", "ok", "admin", pk, None)
                            EXCEPT !.arg = st]

----------------------------------------------------------------------------

(* Initial rows *)

InitBookingRows ==
    /\ slots = [s \in SlotIds |-> [available_capacity |-> 1,
                                   is_active |-> TRUE,
                                   is_blocked |-> (s = "s2")]]
    /\ bookings = <<>>
    /\ history = <<>>
    /\ last = Handled("init", "", None, 0, None)

\* a request slot that holds no request
IdleRequest == [pc |-> "idle", user |-> None, data |-> None, cap_read |-> -1,
                resp |-> ""]
NoRequests == [r \in 1..MaxRequests |-> IdleRequest]
NoFee == [computed |-> FALSE, has_policy |-> FALSE, free_cancellation_hours |-> 0,
          partial_refund_hours |-> 0, no_refund_hours |-> 0,
          partial_refund_percentage |-> 0, total_amount |-> 0, ticks |-> 0,
          result |-> 0]

InitPayoutRows ==
    /\ balance = [d \in Dealers |-> OpeningBalance]
    /\ payouts = <<>>
    /\ balance_transactions = <<>>

InitAccountRows ==
    /\ accounts = {}
    /\ customer_profiles = {}
    /\ dealer_profiles = <<>>

InitOtherRows ==
    /\ reqs = NoRequests
    /\ InitPayoutRows
    /\ InitAccountRows
    /\ fee = NoFee
    /\ created_slots = <<>>

----------------------------------------------------------------------------
(* Spec: the booking request handlers, one request at a time *)

Init == InitBookingRows /\ InitOtherRows

Next ==
    \/ BookingListCreateViewPost
    \/ BookingCancelViewPost
    \/ BookingConfirmViewPost
    \/ DealerSlotDetailViewPatch
    \/ BookingAdminAdd

Spec == Init /\ [][Next]_vars

----------------------------------------------------------------------------
(* SpecAdmin: the admin forms for Booking, which run Booking.clean *)

NextAdmin ==
    \/ BookingAdminAddAny
    \/ BookingAdminChange

SpecAdmin == Init /\ [][NextAdmin]_vars

----------------------------------------------------------------------------
(* SpecRace: booking requests handled concurrently.  A request reads and
   checks the slot first (outside any transaction) and runs its
   transaction.atomic() block later; other requests run in between.  The
   block itself is one step: it commits or rolls back as a whole. *)

RaceBodies ==
    { [service_slot |-> "s1", vehicle |-> "v1", service_slot_id |-> "s1",
       vehicle_id |-> "v1", status |-> None, rest_valid |-> TRUE],
      [service_slot |-> "s1", vehicle |-> "v1", service_slot_id |-> "s1",
       vehicle_id |-> "v1", status |-> None, rest_valid |-> FALSE],
      [service_slot |-> "s2", vehicle |-> "v1", service_slot_id |-> "s2",
       vehicle_id |-> "v1", status |-> None, rest_valid |-> TRUE],
      [service_slot |-> "s1", vehicle |-> "v2", service_slot_id |-> "s1",
       vehicle_id |-> "v2", status |-> None, rest_valid |-> TRUE] }

\* lines 1183-1201: required fields, ServiceSlot.objects.get, the availability
\* check on the row just read, the vehicle ownership check
BookingPostCheck(r) ==
    /\ UNCHANGED <<bookingVars, last, payoutVars, accountVars, fee, created_slots>>
    /\ reqs[r].pc = "idle"
    /\ \E user \in {"c1"}, data \in RaceBodies :
        LET fails ==
                IF validate_required_fields(data, {"service_slot", "vehicle"}) # {}
                THEN "missing_fields"
                ELSE IF data.service_slot \notin DOMAIN slots THEN "invalid_slot"
                ELSE IF SlotRefused(slots[data.service_slot]) THEN "slot_unavailable"
                ELSE IF ~(data.vehicle \in Vehicles /\ VehicleOwner(data.vehicle) = user)
                THEN "invalid_vehicle"
                ELSE ""
        IN
        reqs' = [reqs EXCEPT ![r] =
                    IF fails # ""
                    THEN [pc |-> "done", user |-> user, data |-> data,
                          cap_read |-> -1, resp |-> fails]
                    ELSE [pc |-> "checked", user |-> user, data |-> data,
                          cap_read |-> slots[data.service_slot].available_capacity,
                          resp |-> ""]]

\* lines 1203-1224: the transaction.atomic() block.  slot is the object read by
\* the check, so slot.save() writes the capacity read then, minus 1.
BookingPostTransaction(r) ==
    /\ UNCHANGED <<history, last, payoutVars, accountVars, fee, created_slots>>
    /\ reqs[r].pc = "checked"
    /\ LET data == reqs[r].data
           user == reqs[r].user
           resp == IF ~BookingSerializerIsValid(data) THEN "serializer_errors"
                   ELSE IF BookingSerializerCreateRaises(BookingSerializerContext)
                   THEN "booking_failed"
                   ELSE IF data.service_slot_id \notin DOMAIN slots
                           \/ data.vehicle_id \notin Vehicles
                   THEN "booking_failed"
                   ELSE "created"
       IN
       /\ reqs' = [reqs EXCEPT ![r].pc = "done", ![r].resp = resp]
       /\ IF resp = "created"
          THEN /\ bookings' = Append(bookings, BookingSerializerCreate(data, user))
               /\ slots' = [slots EXCEPT ![data.service_slot].available_capacity =
                                            reqs[r].cap_read - 1]
          ELSE UNCHANGED <<slots, bookings>>

InitRace ==
    /\ InitOtherRows
    /\ slots \in [SlotIds -> [available_capacity : 0..MaxCapacity,
                              is_active : BOOLEAN, is_blocked : {FALSE}]]
    /\ bookings = <<>>
    /\ history = <<>>
    /\ last = Handled("init", "", None, 0, None)

NextRace ==
    \E r \in 1..MaxRequests :
        \/ BookingPostCheck(r)
        \/ BookingPostTransaction(r)

SpecRace == InitRace /\ [][NextRace]_vars

\* the requests that passed both checks on slot s when it had capacity 1,
\* with a body the serializer accepts
RacedOn(s) ==
    {r \in 1..MaxRequests :
        /\ reqs[r].pc = "done"
        /\ reqs[r].cap_read = 1
        /\ reqs[r].data.service_slot = s
        /\ BookingSerializerIsValid(reqs[r].data)}

\* C8: two interleaved booking requests on a slot with available_capacity 1
\* that both pass the availability check both create a Booking: the slot ends
\* with two bookings and a capacity of 0, one decrement being lost.
C8_RaceOverbooks ==
    \A s \in SlotIds :
        Cardinality(RacedOn(s)) >= 2
            => /\ Len(SelectSeq(bookings, LAMBDA b : b.service_slot = s)) >= 2
               /\ slots[s].available_capacity = 0

----------------------------------------------------------------------------
(* Booking.get_cancellation_fee *)

\* Decimal('100.00'), in hundredths of a percent.  Amounts are in cents and a
\* fee is kept as cents times HundredPercent, so that the division by
\* Decimal('100.00') stays exact.
HundredPercent == 10000

\* the same with a strict comparison against free_cancellation_hours
get_cancellation_fee_free_strict(b) ==
    IF ~b.has_policy THEN 0
    ELSE IF b.ticks > b.free_cancellation_hours * TicksPerHour THEN 0
    ELSE IF b.ticks >= b.partial_refund_hours * TicksPerHour
    THEN b.total_amount * (HundredPercent - b.partial_refund_percentage)
    ELSE b.total_amount * HundredPercent

\* the same with a strict comparison against partial_refund_hours
get_cancellation_fee_partial_strict(b) ==
    IF ~b.has_policy THEN 0
    ELSE IF b.ticks >= b.free_cancellation_hours * TicksPerHour THEN 0
    ELSE IF b.ticks > b.partial_refund_hours * TicksPerHour
    THEN b.total_amount * (HundredPercent - b.partial_refund_percentage)
    ELSE b.total_amount * HundredPercent

\* the same with the partial refund granted to every late cancellation
get_cancellation_fee_late_partial(b) ==
    IF ~b.has_policy THEN 0
    ELSE IF b.ticks >= b.free_cancellation_hours * TicksPerHour THEN 0
    ELSE b.total_amount * (HundredPercent - b.partial_refund_percentage)

\* Booking.get_cancellation_fee.  b.ticks is service_scheduled_at - now in
\* units of 1/TicksPerHour hour, so hours_until_service >= h is
\* b.ticks >= h * TicksPerHour.
get_cancellation_fee(b) ==
    IF ~b.has_policy THEN 0
    ELSE IF b.ticks >= b.free_cancellation_hours * TicksPerHour THEN 0
    ELSE IF b.ticks >= b.partial_refund_hours * TicksPerHour
    THEN b.total_amount * (HundredPercent - b.partial_refund_percentage)
    ELSE b.total_amount * HundredPercent

\* bookings and policies the fee is evaluated on
FeeInputs ==
    [computed : {FALSE}, has_policy : BOOLEAN,
     free_cancellation_hours : 0..MaxHours,
     partial_refund_hours : 0..MaxHours,
     no_refund_hours : 0..MaxHours,
     partial_refund_percentage : {0, 5000, 10000},
     total_amount : {0, 999, 10000},
     ticks : -1..(MaxHours * TicksPerHour + 1),
     result : {0}]

GetCancellationFee ==
    /\ UNCHANGED <<bookingVars, last, reqs, payoutVars, accountVars, created_slots>>
    /\ ~fee.computed
    /\ fee' = [fee EXCEPT !.computed = TRUE, !.result = get_cancellation_fee(fee)]

InitFee ==
    /\ InitBookingRows
    /\ reqs = NoRequests
    /\ InitPayoutRows
    /\ InitAccountRows
    /\ fee \in FeeInputs
    /\ created_slots = <<>>

NextFee == GetCancellationFee

SpecFee == InitFee /\ [][NextFee]_vars

\* C4: with a policy, the fee is 0 whenever the time left is at least
\* free_cancellation_hours.
C4_FreeWindowNoFee ==
    (fee.computed /\ fee.has_policy
        /\ fee.ticks >= fee.free_cancellation_hours * TicksPerHour)
    => fee.result = 0

C4_Witness ==
    /\ fee.computed /\ fee.has_policy
    /\ fee.ticks = fee.free_cancellation_hours * TicksPerHour
    /\ fee.total_amount > 0
    /\ fee.partial_refund_percentage < HundredPercent
    /\ fee.result = 0

\* C5 as claimed: with a policy, the fee is the full total_amount whenever the
\* time left is below no_refund_hours, whatever the three thresholds are.
C5_NoRefundWindowFull ==
    (fee.computed /\ fee.has_policy
        /\ fee.ticks < fee.no_refund_hours * TicksPerHour)
    => fee.result = fee.total_amount * HundredPercent

\* C5 as amended: the same for the policies whose no_refund_hours exceeds
\* neither partial_refund_hours nor free_cancellation_hours.
C5_NoRefundWindowFullOrdered ==
    (fee.computed /\ fee.has_policy
        /\ fee.no_refund_hours <= fee.partial_refund_hours
        /\ fee.no_refund_hours <= fee.free_cancellation_hours
        /\ fee.ticks < fee.no_refund_hours * TicksPerHour)
    => fee.result = fee.total_amount * HundredPercent

C5_Witness ==
    /\ fee.computed /\ fee.has_policy
    /\ fee.no_refund_hours <= fee.partial_refund_hours
    /\ fee.partial_refund_hours <= fee.free_cancellation_hours
    /\ fee.ticks >= 0
    /\ fee.ticks < fee.no_refund_hours * TicksPerHour
    /\ fee.partial_refund_percentage = 5000
    /\ fee.total_amount = 999
    /\ fee.result = 999 * HundredPercent

\* C6: with a policy, in the partial window (time left below
\* free_cancellation_hours and at least partial_refund_hours) the fee is
\* total_amount * (100 - partial_refund_percentage) / 100; outside the free
\* window and the partial window it is the full total_amount.
C6_PartialWindowFee ==
    (fee.computed /\ fee.has_policy)
    => LET free == fee.ticks >= fee.free_cancellation_hours * TicksPerHour
           partial == /\ fee.ticks < fee.free_cancellation_hours * TicksPerHour
                      /\ fee.ticks >= fee.partial_refund_hours * TicksPerHour
       IN /\ partial => fee.result =
                           fee.total_amount * (HundredPercent - fee.partial_refund_percentage)
          /\ (~free /\ ~partial) => fee.result = fee.total_amount * HundredPercent

C6_Witness ==
    /\ fee.computed /\ fee.has_policy
    /\ fee.ticks = fee.partial_refund_hours * TicksPerHour
    /\ fee.ticks < fee.free_cancellation_hours * TicksPerHour
    /\ fee.partial_refund_percentage = 5000
    /\ fee.total_amount = 999
    /\ fee.result = 4995000

----------------------------------------------------------------------------
(* DealerPayout and the post_save signal update_dealer_balance_on_payout *)

\* DealerPayout.save: net_amount = amount - processing_fee
DealerPayoutRow(dealer, amount, processing_fee, status) ==
    [dealer |-> dealer, amount |-> amount, processing_fee |-> processing_fee,
     net_amount |-> amount - processing_fee, status |-> status]

\* the model BalanceTransaction.related_payout points to
RelatedPayoutModel == "PayoutRequest"

\* Assigning related_payout=instance raises ValueError unless instance is a
\* RelatedPayoutModel row; the signal passes the DealerPayout it was sent for.
BalanceTransactionCreateRaises(instance_model) == instance_model # RelatedPayoutModel

\* update_dealer_balance_on_payout(instance=payouts row pk, created): the
\* balances and BalanceTransaction rows after it, and whether it raised.
\* dealer_profile.save(update_fields=['current_balance']) comes first.
update_dealer_balance_on_payout(pk, row, created, bal, txs) ==
    IF created /\ row.status = "completed"
    THEN LET debited == [bal EXCEPT ![row.dealer] = @ - row.net_amount] IN
         IF BalanceTransactionCreateRaises("DealerPayout")
         THEN [balance |-> debited, txs |-> txs, raised |-> TRUE]
         ELSE [balance |-> debited,
               txs |-> Append(txs,
                          [dealer |-> row.dealer,
                           amount |-> 0 - row.net_amount,
                           transaction_type |-> "payout",
                           related_payout |-> pk,
                           balance_before |-> debited[row.dealer] + row.net_amount,
                           balance_after |-> debited[row.dealer]]),
               raised |-> FALSE]
    ELSE [balance |-> bal, txs |-> txs, raised |-> FALSE]

\* request bodies: with an amount, or without the required amount field
PayoutBodies ==
    [amount_given : {TRUE}, amount : {0, 1, 2, 9}, processing_fee : {0, 1},
     status : {None, "completed"}]
        \cup [amount_given : {FALSE}, amount : {0}, processing_fee : {0},
              status : {None}]

\* a balance test that lets every amount through
InsufficientBalanceNever(current_balance, amount) == FALSE

\* dealer_profile.current_balance < amount
InsufficientBalance(current_balance, amount) == current_balance < amount

\* DealerPayoutListView.post.  No transaction surrounds ser.save: the inserted
\* payout and the balance saved by the signal stay when the signal raises.
DealerPayoutListViewPost ==
    /\ UNCHANGED <<bookingVars, reqs, accountVars, fee, created_slots>>
    /\ Len(payouts) < MaxPayouts
    /\ \E user \in {"c1", "d1"}, data \in PayoutBodies :
        IF ensure_dealer(user)
        THEN /\ UNCHANGED payoutVars
             /\ last' = Handled("payout_post", "permission_denied", None, 0, None)
        ELSE IF ~data.amount_given
        THEN /\ UNCHANGED payoutVars
             /\ last' = Handled("payout_post", "missing_fields", None, 0, None)
        ELSE IF data.amount <= 0
        THEN /\ UNCHANGED payoutVars
             /\ last' = Handled("payout_post", "invalid_amount", None, 0, None)
        ELSE IF InsufficientBalance(balance[user], data.amount)
        THEN /\ UNCHANGED payoutVars
             /\ last' = Handled("payout_post", "insufficient_balance", None, 0, None)
        ELSE LET row == DealerPayoutRow(user, data.amount, data.processing_fee,
                                        IF data.status = None THEN "pending"
                                        ELSE data.status)
                 pk == Len(payouts) + 1
                 sig == update_dealer_balance_on_payout(pk, row, TRUE, balance,
                                                        balance_transactions)
             IN /\ payouts' = Append(payouts, row)
                /\ balance' = sig.balance
                /\ balance_transactions' = sig.txs
                /\ last' = Handled("payout_post",
                                   IF sig.raised THEN "payout_failed" ELSE "created",
                                   user, pk, None)

\* DealerPayoutAdmin add form.  The admin runs the form's save in
\* transaction.atomic(): when the signal raises, nothing is kept.
DealerPayoutAdminAdd ==
    /\ UNCHANGED <<bookingVars, reqs, accountVars, fee, created_slots>>
    /\ Len(payouts) < MaxPayouts
    /\ \E dealer \in {"d1"}, amount \in 1..2, st \in {"pending", "approved", "completed"} :
        LET row == DealerPayoutRow(dealer, amount, 0, st)
            pk == Len(payouts) + 1
            sig == update_dealer_balance_on_payout(pk, row, TRUE, balance,
                                                   balance_transactions)
        IN IF sig.raised
           THEN /\ UNCHANGED payoutVars
                /\ last' = Handled("payout_admin_add", "server_error", "admin", 0, None)
           ELSE /\ payouts' = Append(payouts, row)
                /\ balance' = sig.balance
                /\ balance_transactions' = sig.txs
                /\ last' = Handled("payout_admin_add", "ok", "admin", pk, None)

\* DealerPayoutAdmin change form: the row is saved again, the signal runs
\* with created = False.
DealerPayoutAdminChange ==
    /\ UNCHANGED <<bookingVars, reqs, accountVars, fee, created_slots>>
    /\ \E pk \in DOMAIN payouts, st \in {"approved", "completed", "failed"} :
        LET row == [payouts[pk] EXCEPT !.status = st]
            sig == update_dealer_balance_on_payout(pk, row, FALSE, balance,
                                                   balance_transactions)
        IN /\ payouts' = [payouts EXCEPT ![pk] = row]
           /\ balance' = sig.balance
           /\ balance_transactions' = sig.txs
           /\ last' = [Handled("payout_admin_change", "ok", "admin", pk, None)
                          EXCEPT !.arg = st]

NextPayout ==
    \/ DealerPayoutListViewPost
    \/ DealerPayoutAdminAdd
    \/ DealerPayoutAdminChange

SpecPayout == Init /\ [][NextPayout]_vars

\* the sum of net_amount over the completed payouts of dealer d among the first n rows
RECURSIVE CompletedNet(_, _)
CompletedNet(d, n) ==
    IF n = 0 THEN 0
    ELSE CompletedNet(d, n - 1)
         + (IF payouts[n].dealer = d /\ payouts[n].status = "completed"
            THEN payouts[n].net_amount ELSE 0)

\* the BalanceTransaction rows of type 'payout' written for payout pk
PayoutTransactions(pk) ==
    {i \in DOMAIN balance_transactions :
        /\ balance_transactions[i].transaction_type = "payout"
        /\ balance_transactions[i].related_payout = pk}

\* C3: every completed DealerPayout has debited the dealer's current_balance by
\* its net_amount and has exactly one matching 'payout' BalanceTransaction with
\* amount = -net_amount and balance_after = balance_before - net_amount.
C3_CompletedPayoutDebited ==
    /\ \A d \in Dealers : balance[d] = OpeningBalance - CompletedNet(d, Len(payouts))
    /\ \A pk \in DOMAIN payouts :
        payouts[pk].status = "completed"
        => /\ Cardinality(PayoutTransactions(pk)) = 1
           /\ \A i \in PayoutTransactions(pk) :
                /\ balance_transactions[i].amount = 0 - payouts[pk].net_amount
                /\ balance_transactions[i].balance_after =
                     balance_transactions[i].balance_before - payouts[pk].net_amount

----------------------------------------------------------------------------
(* Registration: UserRegistrationView.post, UserRegistrationSerializer.create,
   CustomRegisterSerializer.save, and the DealerProfile admin change form *)

Usernames == {"u1", "u2", "u3"}
Emails == {"e1", "e2"}
UserTypes == {None, "customer", "dealer", "admin"}

Passwords == {"kx9!q", "kx9!qz", "kx9!qzw2"}

\* the request bodies; password_confirm stands for whether it repeats the password
RegistrationBodies ==
    [username : Usernames \cup {None}, email : Emails, password : Passwords,
     password_confirm : BOOLEAN, user_type : UserTypes]

\* the DealerProfile columns that are NOT NULL and have no default: a CharField
\* left out is stored as '', a DecimalField left out is NULL
DealerProfileNotNull == {"latitude", "longitude"}

\* the fields UserRegistrationView.post passes to DealerProfile.objects.create
ViewDealerFields == {"user", "business_name"}

\* the fields the two serializers pass to DealerProfile.objects.create
SerializerDealerFields ==
    {"user", "business_name", "address", "city", "postal_code", "latitude",
     "longitude", "business_phone", "bank_account_name", "bank_account_number",
     "bank_name", "bank_routing_number"}

\* the row a registration inserts: business_license and api_key are not passed
NewDealerProfile == [business_license |-> "", api_key |-> ""]

\* DealerProfile.objects.create raises IntegrityError: a NOT NULL column has no
\* value, the user already has a row (OneToOneField), or business_license or
\* api_key repeats another row's (unique=True)
DealerProfileInsertRaises(given, user, row, profiles) ==
    \/ DealerProfileNotNull \ given # {}
    \/ user \in DOMAIN profiles
    \/ \E u \in DOMAIN profiles :
         \/ profiles[u].business_license = row.business_license
         \/ profiles[u].api_key = row.api_key

DealerProfileInsert(user, row, profiles) ==
    [u \in DOMAIN profiles \cup {user} |-> IF u = user THEN row ELSE profiles[u]]

UsernameExists(username) == \E a \in accounts : a.username = username
EmailExists(email) == \E a \in accounts : a.email = email

\* the profile kinds UserRegistrationView.post creates for user_type
UserRegistrationViewProfiles(user_type) ==
    IF user_type = "dealer" THEN {"dealer"} ELSE {"customer"}

\* a variant of SerializerProfiles in which a dealer also gets a CustomerProfile
SerializerProfilesBoth(user_type) ==
    IF user_type = "customer" THEN {"customer"}
    ELSE IF user_type = "dealer" THEN {"customer", "dealer"}
    ELSE {}

\* the profile kinds UserRegistrationSerializer.create and
\* CustomRegisterSerializer.save create for user_type: if customer / elif dealer
SerializerProfiles(user_type) ==
    IF user_type = "customer" THEN {"customer"}
    ELSE IF user_type = "dealer" THEN {"dealer"}
    ELSE {}

\* a block that keeps the rows written before the exception
AtomicRollbackNone(before, after) == after

\* with transaction.atomic(): the rows when the block raises, given the rows
\* before the block and the rows written inside it up to the exception
AtomicRollback(before, after) == before

\* UserRegistrationView.post: the user and the profile are created inside
\* transaction.atomic(), so an IntegrityError leaves neither
UserRegistrationViewPost ==
    /\ UNCHANGED <<bookingVars, reqs, payoutVars, fee, created_slots>>
    /\ \E data \in RegistrationBodies :
        LET kinds == UserRegistrationViewProfiles(
                        IF data.user_type = None THEN "customer" ELSE data.user_type)
            failed(resp) ==
                /\ UNCHANGED accountVars
                /\ last' = [Handled("register_view", resp, None, 0, None)
                               EXCEPT !.arg = data.user_type]
        IN
        IF validate_required_fields(data, {"username", "email", "password"}) # {}
        THEN failed("missing_fields")
        ELSE IF UsernameExists(data.username)
        THEN failed("username_taken")
        ELSE IF EmailExists(data.email)
        THEN failed("email_taken")
        ELSE IF Len(data.password) < 6
        THEN failed("weak_password")
        ELSE IF /\ "dealer" \in kinds
                /\ DealerProfileInsertRaises(ViewDealerFields, data.username,
                                             NewDealerProfile, dealer_profiles)
        THEN /\ accounts' = AtomicRollback(accounts,
                                            accounts \cup {[username |-> data.username,
                                                             email |-> data.email]})
             /\ UNCHANGED <<customer_profiles, dealer_profiles>>
             /\ last' = [Handled("register_view", "database_error", None, 0, None)
                            EXCEPT !.arg = data.user_type]
        ELSE /\ accounts' = accounts \cup {[username |-> data.username,
                                            email |-> data.email]}
             /\ customer_profiles' =
                    IF "customer" \in kinds
                    THEN customer_profiles \cup {data.username}
                    ELSE customer_profiles
             /\ dealer_profiles' =
                    IF "dealer" \in kinds
                    THEN DealerProfileInsert(data.username, NewDealerProfile,
                                             dealer_profiles)
                    ELSE dealer_profiles
             /\ last' = [Handled("register_view", "created", data.username, 0, None)
                            EXCEPT !.arg = data.user_type]

\* the rows after a serializer has created the user and then its profiles, in
\* the code's order (customer first); no transaction surrounds them, so the
\* user stays when the DealerProfile insert raises
SerializerCreateRows(op, username, email, user_type) ==
    LET kinds == SerializerProfiles(user_type)
        raises == /\ "dealer" \in kinds
                  /\ DealerProfileInsertRaises(SerializerDealerFields, username,
                                               NewDealerProfile, dealer_profiles)
    IN
    /\ accounts' = accounts \cup {[username |-> username, email |-> email]}
    /\ customer_profiles' =
           IF "customer" \in kinds THEN customer_profiles \cup {username}
           ELSE customer_profiles
    /\ dealer_profiles' =
           IF "dealer" \in kinds /\ ~raises
           THEN DealerProfileInsert(username, NewDealerProfile, dealer_profiles)
           ELSE dealer_profiles
    /\ last' = [Handled(op, IF raises THEN "integrity_error" ELSE "created",
                        username, 0, None)
                   EXCEPT !.arg = user_type]

\* UserRegistrationSerializer: is_valid (username unique, password of at least
\* 8 characters and repeated, user_type one of the two choices), then create
UserRegistrationSerializerCreate ==
    /\ UNCHANGED <<bookingVars, reqs, payoutVars, fee, created_slots>>
    /\ \E data \in RegistrationBodies :
        IF \/ data.username = None
           \/ UsernameExists(data.username)
           \/ Len(data.password) < 8
           \/ ~data.password_confirm
           \/ data.user_type \notin {"customer", "dealer"}
        THEN /\ UNCHANGED accountVars
             /\ last' = [Handled("serializer_create", "serializer_errors", None, 0, None)
                            EXCEPT !.arg = data.user_type]
        ELSE SerializerCreateRows("serializer_create", data.username, data.email,
                                  data.user_type)

\* CustomRegisterSerializer.save: RegisterSerializer validates (the email is
\* new, the two passwords agree and pass the password validators, user_type is
\* a choice or left out) and creates the user, under the submitted username or
\* a generated unused one; the profile follows with get_or_create
CustomRegisterSerializerSave ==
    /\ UNCHANGED <<bookingVars, reqs, payoutVars, fee, created_slots>>
    /\ \E data \in RegistrationBodies :
        LET user_type == IF data.user_type = None THEN "customer" ELSE data.user_type IN
        IF \/ data.username # None /\ UsernameExists(data.username)
           \/ EmailExists(data.email)
           \/ Len(data.password) < 8
           \/ ~data.password_confirm
           \/ user_type \notin {"customer", "dealer"}
        THEN /\ UNCHANGED accountVars
             /\ last' = [Handled("custom_register", "serializer_errors", None, 0, None)
                            EXCEPT !.arg = data.user_type]
        ELSE \E username \in Usernames :
                /\ ~UsernameExists(username)
                /\ data.username # None => username = data.username
                /\ SerializerCreateRows("custom_register", username, data.email,
                                        user_type)

\* DealerProfileAdmin change form: the staff user enters the dealer's own
\* business_license (written as the username: no two dealers share it) and an
\* api_key or none; the form's validate_unique refuses a repeated value
DealerProfileAdminChange ==
    /\ UNCHANGED <<bookingVars, reqs, payoutVars, fee, created_slots>>
    /\ UNCHANGED <<accounts, customer_profiles>>
    /\ \E user \in DOMAIN dealer_profiles : \E api_key \in {"", user} :
        LET row == [business_license |-> user, api_key |-> api_key] IN
        IF \E u \in DOMAIN dealer_profiles \ {user} :
              \/ dealer_profiles[u].business_license = row.business_license
              \/ dealer_profiles[u].api_key = row.api_key
        THEN /\ UNCHANGED dealer_profiles
             /\ last' = Handled("dealer_admin_change", "form_errors", "admin", 0, None)
        ELSE /\ dealer_profiles' = [dealer_profiles EXCEPT ![user] = row]
             /\ last' = Handled("dealer_admin_change", "ok", "admin", 0, None)

NextRegister ==
    \/ UserRegistrationViewPost
    \/ UserRegistrationSerializerCreate
    \/ CustomRegisterSerializerSave
    \/ DealerProfileAdminChange

SpecRegister == Init /\ [][NextRegister]_vars

RegistrationOps == {"register_view", "serializer_create", "custom_register"}

\* C7: after every registration call no user has both a CustomerProfile and a
\* DealerProfile; a call with user_type 'dealer' creates no CustomerProfile and
\* no DealerProfile other than the new user's, and any other call creates no
\* DealerProfile and no CustomerProfile other than the new user's.
C7_ProfilesExclusive ==
    [][last'.op \in RegistrationOps =>
        /\ customer_profiles' \cap DOMAIN dealer_profiles' = {}
        /\ IF last'.arg = "dealer"
           THEN /\ customer_profiles' = customer_profiles
                /\ (DOMAIN dealer_profiles') \ (DOMAIN dealer_profiles)
                       \subseteq {last'.user}
           ELSE /\ dealer_profiles' = dealer_profiles
                /\ customer_profiles' \ customer_profiles \subseteq {last'.user}
        /\ customer_profiles' # customer_profiles \/ dealer_profiles' # dealer_profiles
           => ~UsernameExists(last'.user)]_vars

\* a dealer registration has just created a DealerProfile, and only that, for
\* its new user while another user holds a CustomerProfile
C7_Witness ==
    /\ last.op \in RegistrationOps
    /\ last.arg = "dealer"
    /\ last.resp = "created"
    /\ last.user \in DOMAIN dealer_profiles
    /\ last.user \notin customer_profiles
    /\ customer_profiles # {}


----------------------------------------------------------------------------
(* BookingAdmin.confirm_bookings / cancel_bookings: the bulk actions of
   backupadmin.py.  Each is one queryset.update(): no Booking.save, no
   Booking.clean, no signal, no BookingStatusHistory row, no slot write. *)

\* queryset.filter(status='pending')
BulkConfirmStatuses == {"pending"}

\* a filter that also lets finished bookings through
BulkCancelStatusesAny == {"pending", "confirmed", "completed"}

\* queryset.filter(status__in=['pending', 'confirmed'])
BulkCancelStatuses == {"pending", "confirmed"}

\* the rows after queryset.filter(status in from).update(status=to) on the
\* selected bookings
BulkUpdate(selected, from, to) ==
    [pk \in DOMAIN bookings |->
        IF pk \in selected /\ bookings[pk].status \in from
        THEN [bookings[pk] EXCEPT !.status = to]
        ELSE bookings[pk]]

confirm_bookings ==
    /\ UNCHANGED <<reqs, payoutVars, accountVars, fee, created_slots>>
    /\ \E selected \in SUBSET (DOMAIN bookings) \ {{}} :
        /\ bookings' = BulkUpdate(selected, BulkConfirmStatuses, "confirmed")
        /\ UNCHANGED <<slots, history>>
        /\ last' = Handled("confirm_bookings", "ok", "admin", 0, None)

cancel_bookings ==
    /\ UNCHANGED <<reqs, payoutVars, accountVars, fee, created_slots>>
    /\ \E selected \in SUBSET (DOMAIN bookings) \ {{}} :
        /\ bookings' = BulkUpdate(selected, BulkCancelStatuses, "cancelled_by_dealer")
        /\ UNCHANGED <<slots, history>>
        /\ last' = Handled("cancel_bookings", "ok", "admin", 0, None)

\* SpecBulk: the booking handlers of Spec together with the two bulk actions
NextBulk ==
    \/ Next
    \/ confirm_bookings
    \/ cancel_bookings

SpecBulk == Init /\ [][NextBulk]_vars

----------------------------------------------------------------------------
(* Exceptions and HTTP status codes: the try/except of each handler and
   BaseAPIView.handle_exception *)

\* BaseAPIView.handle_exception: the status code it answers an exception with.
\* The last branch logs and hands the exception to APIView.handle_exception,
\* which turns Http404 into 404 and re-raises anything else: a server error.
handle_exception(exc) ==
    CASE exc \in {"NotFound", "Http404"} -> 404
      [] exc = "PermissionDenied" -> 403
      [] exc = "ValidationError" -> 400
      [] exc = "IntegrityError" -> 400
      [] OTHER -> 500

\* the exception raised inside the handler's try block for each outcome of the
\* model's handlers, None when nothing was raised
RaisedIn(op, resp) ==
    CASE resp = "missing_fields" -> "ValidationError"
      [] resp = "permission_denied" -> "PermissionDenied"
      [] resp \in {"cancel_failed", "confirm_failed", "update_failed"} -> "Http404"
      [] op = "booking_post" /\ resp = "booking_failed" -> "KeyError"
      [] op = "payout_post" /\ resp = "payout_failed" -> "ValueError"
      [] op = "register_view" /\ resp = "database_error" -> "IntegrityError"
      [] op = "slot_post" /\ resp = "slot_failed" -> "IntegrityError"
      [] OTHER -> None

\* the except clauses of the handler itself: the status code of the response
\* they build with self.fail (400 by default), or 0 when the exception leaves
\* the handler (except PermissionDenied: raise)
HandlerExcept(op, exc) ==
    IF exc = "PermissionDenied"
       /\ op \in {"booking_confirm", "slot_patch", "slot_post", "payout_post"}
    THEN 0
    ELSE 400

\* the handlers of BaseAPIView subclasses in the model
ApiOps == {"booking_post", "booking_cancel", "booking_confirm", "slot_patch",
           "slot_post", "payout_post", "register_view"}

\* the HTTP status code of the response to the request handled last
ResponseStatus(op, resp) ==
    LET exc == RaisedIn(op, resp) IN
    IF exc = None
    THEN IF resp = "created" THEN 201 ELSE IF resp = "ok" THEN 200 ELSE 400
    ELSE IF HandlerExcept(op, exc) = 0 THEN handle_exception(exc)
    ELSE HandlerExcept(op, exc)

\* the exceptions the handlers expect: not-found, permission, validation, integrity
ExpectedExceptions ==
    {"NotFound", "Http404", "PermissionDenied", "ValidationError", "IntegrityError"}

----------------------------------------------------------------------------
(* ServiceSlot rows created at run time: slot generation from weekly
   templates (the admin views generate_slots_view and generate_all_slots_view)
   and DealerSlotListCreateView.post.  Dates are day numbers counted from
   today (day 0); a row is [service, date, start_time]. *)

Services == {"sv1", "sv2"}
\* Service.dealer
ServiceDealer(sv) == IF sv = "sv1" THEN "d1" ELSE "d2"

\* the weekday of today and of the day d days from today
TodayWeekday == 0
Weekday(d) == (TodayWeekday + d) % 7

\* SlotTemplate rows: t1 and t2 are two templates of the same service for the
\* same weekday and start time
SlotTemplates ==
    [t1 |-> [service |-> "sv1", day_of_week |-> 2, start_time |-> 9],
     t2 |-> [service |-> "sv1", day_of_week |-> 2, start_time |-> 9],
     t3 |-> [service |-> "sv2", day_of_week |-> 5, start_time |-> 14]]

\* the day counts the admin offers
DayCounts == {7, 15, 30}

\* an insert without the uniqueness constraint
ServiceSlotInsertRaisesNever(row, rows) == FALSE

\* ServiceSlot.Meta.unique_together = ['service', 'date', 'start_time']: TRUE
\* when inserting row raises IntegrityError
ServiceSlotInsertRaises(row, rows) ==
    \E i \in DOMAIN rows :
        /\ rows[i].service = row.service
        /\ rows[i].date = row.date
        /\ rows[i].start_time = row.start_time

\* SlotTemplate.generate_slots_for_days(days), from day d on: one insert for
\* each future date of the window whose weekday is the template's.  A row the
\* uniqueness constraint refuses is skipped or ends the run with the
\* IntegrityError, according to on_conflict.
RECURSIVE generate_slots_for_days(_, _, _, _, _)
generate_slots_for_days(tpl, d, days, rows, on_conflict) ==
    IF d > days THEN [rows |-> rows, raised |-> FALSE]
    ELSE IF Weekday(d) # tpl.day_of_week
    THEN generate_slots_for_days(tpl, d + 1, days, rows, on_conflict)
    ELSE LET row == [service |-> tpl.service, date |-> d,
                     start_time |-> tpl.start_time] IN
         IF ServiceSlotInsertRaises(row, rows)
         THEN IF on_conflict = "skip"
              THEN generate_slots_for_days(tpl, d + 1, days, rows, on_conflict)
              ELSE [rows |-> rows, raised |-> TRUE]
         ELSE generate_slots_for_days(tpl, d + 1, days, Append(rows, row), on_conflict)

\* generate_all_slots_for_service(service, days): every template of the service in turn
RECURSIVE generate_all_slots_for_service(_, _, _, _, _)
generate_all_slots_for_service(service, tpls, days, rows, on_conflict) ==
    IF tpls = <<>> THEN [rows |-> rows, raised |-> FALSE]
    ELSE IF SlotTemplates[Head(tpls)].service # service
    THEN generate_all_slots_for_service(service, Tail(tpls), days, rows, on_conflict)
    ELSE LET r == generate_slots_for_days(SlotTemplates[Head(tpls)], 1, days, rows,
                                          on_conflict) IN
         IF r.raised THEN r
         ELSE generate_all_slots_for_service(service, Tail(tpls), days, r.rows,
                                             on_conflict)

ConflictHandling == {"skip", "raise"}

\* SlotTemplateAdmin.generate_slots_view(object_id, days)
generate_slots_view ==
    /\ UNCHANGED <<bookingVars, reqs, payoutVars, accountVars, fee>>
    /\ \E object_id \in DOMAIN SlotTemplates, days \in DayCounts,
          on_conflict \in ConflictHandling :
        LET r == generate_slots_for_days(SlotTemplates[object_id], 1, days,
                                         created_slots, on_conflict) IN
        /\ created_slots' = r.rows
        /\ last' = [op |-> "generate_slots",
                    resp |-> IF r.raised THEN "server_error" ELSE "ok",
                    user |-> "admin", pk |-> days, slot |-> object_id,
                    arg |-> on_conflict]

\* ServiceAdmin.generate_all_slots_view(object_id, days)
generate_all_slots_view ==
    /\ UNCHANGED <<bookingVars, reqs, payoutVars, accountVars, fee>>
    /\ \E object_id \in Services, days \in DayCounts, on_conflict \in ConflictHandling :
        LET r == generate_all_slots_for_service(object_id, <<"t1", "t2", "t3">>, days,
                                                created_slots, on_conflict) IN
        /\ created_slots' = r.rows
        /\ last' = [op |-> "generate_all_slots",
                    resp |-> IF r.raised THEN "server_error" ELSE "ok",
                    user |-> "admin", pk |-> days, slot |-> object_id,
                    arg |-> on_conflict]

\* an id that names no Service row
NoSuchService == "svX"

\* request bodies of DealerSlotListCreateView.post: 'service' is read by the
\* view, 'service_id' by ServiceSlotSerializer; date and start_time are always
\* sent, end_time may be missing
SlotBodies ==
    [service : Services \cup {None},
     service_id : Services \cup {NoSuchService, None},
     date : {2}, start_time : {9}, end_time : {"10:00", None}]

\* ServiceSlotSerializer.is_valid: service_id is a required write-only field,
\* service is read-only (ignored on input)
ServiceSlotSerializerIsValid(data) == data.service_id # None

\* ServiceSlotSerializer.save: ServiceSlot.objects.create(**validated_data)
ServiceSlotSerializerCreate(data) ==
    [service |-> data.service_id, date |-> data.date, start_time |-> data.start_time]

\* DealerSlotListCreateView.post
DealerSlotListCreateViewPost ==
    /\ UNCHANGED <<bookingVars, reqs, payoutVars, accountVars, fee>>
    /\ \E user \in {"c1", "d1"}, data \in SlotBodies :
        LET row == ServiceSlotSerializerCreate(data)
            resp ==
                IF ensure_dealer(user) THEN "permission_denied"
                ELSE IF validate_required_fields(data, {"service", "end_time"}) # {}
                THEN "missing_fields"
                ELSE IF ~(data.service \in Services /\ ServiceDealer(data.service) = user)
                THEN "invalid_service"
                ELSE IF ~ServiceSlotSerializerIsValid(data) THEN "serializer_errors"
                \* IntegrityError (unknown service or repeated service, date,
                \* start_time), caught by except Exception
                ELSE IF data.service_id \notin Services
                        \/ ServiceSlotInsertRaises(row, created_slots)
                THEN "slot_failed"
                ELSE "created"
        IN
        /\ created_slots' = IF resp = "created" THEN Append(created_slots, row)
                            ELSE created_slots
        /\ last' = Handled("slot_post", resp, user,
                           IF resp = "created" THEN Len(created_slots) + 1 ELSE 0,
                           IF data.service = None THEN None ELSE data.service)

\* SpecSlots: slot generation and slot creation
NextSlots ==
    \/ generate_slots_view
    \/ generate_all_slots_view
    \/ DealerSlotListCreateViewPost

SpecSlots == Init /\ [][NextSlots]_vars

----------------------------------------------------------------------------
(* Properties of the booking handlers *)

\* C1: a booking request that names a slot whose available_capacity is 0 is
\* rejected before the vehicle check and the serializer are reached (by the
\* required-field validation or by the availability check): the response is a
\* failure, no Booking is created and no slot capacity changes.
C1_FullSlotRejected ==
    [][(/\ last'.op = "booking_post"
        /\ last'.slot \in SlotIds
        /\ slots[last'.slot].available_capacity = 0)
       => (/\ last'.resp \in {"missing_fields", "slot_unavailable"}
           /\ bookings' = bookings
           /\ slots' = slots)]_vars

C1_Witness ==
    /\ last.op = "booking_post"
    /\ last.resp = "slot_unavailable"
    /\ last.slot \in SlotIds
    /\ slots[last.slot].is_active
    /\ slots[last.slot].available_capacity = 0

\* C2: a successful customer cancel acts on a booking of the requesting
\* customer that was pending or confirmed, raises the available_capacity of the
\* slot that booking references by exactly 1 and leaves every other slot as it was.
C2_CancelReleasesOne ==
    [][(last'.op = "booking_cancel" /\ last'.resp = "ok")
       => (/\ last'.pk \in DOMAIN bookings
           /\ bookings[last'.pk].customer = last'.user
           /\ bookings[last'.pk].status \in {"pending", "confirmed"}
           /\ slots' = [slots EXCEPT
                          ![bookings[last'.pk].service_slot].available_capacity = @ + 1])]_vars

C2_Witness ==
    /\ last.op = "booking_cancel"
    /\ last.resp = "ok"
    /\ bookings[last.pk].status = "cancelled_by_customer"
    /\ slots[bookings[last.pk].service_slot].available_capacity > 0

\* C9: a booking request commits either a new Booking together with the
\* decrement of the checked slot, or nothing: no Booking and no capacity change.
C9_BookingAtomic ==
    [][(last'.op = "booking_post")
       => (\/ /\ last'.resp = "created"
              /\ Len(bookings') = Len(bookings) + 1
              /\ SubSeq(bookings', 1, Len(bookings)) = bookings
              /\ slots' = [slots EXCEPT ![last'.slot].available_capacity = @ - 1]
           \/ /\ last'.resp # "created"
              /\ bookings' = bookings
              /\ slots' = slots)]_vars

\* a request that failed inside the transaction, after both checks had passed
C9_Witness ==
    /\ last.op = "booking_post"
    /\ last.resp = "booking_failed"
    /\ last.slot \in SlotIds
    /\ slots[last.slot].available_capacity > 0

----------------------------------------------------------------------------
(* Properties of Booking.clean *)

\* the successors the booking lifecycle allows
LifecycleSuccessors(st) ==
    CASE st = "pending" -> {"confirmed", "cancelled_by_customer", "cancelled_by_dealer", "expired"}
      [] st = "confirmed" -> {"in_progress", "cancelled_by_customer", "cancelled_by_dealer"}
      [] st = "in_progress" -> {"completed", "no_show"}
      [] OTHER -> {}

\* C10: for a stored booking in pending, confirmed or in_progress, Booking.clean
\* raises exactly when the new status is not an allowed successor of the stored
\* one; for an unsaved booking it raises nothing.
C10_CleanChecksTransitions ==
    [][/\ (/\ last'.op = "admin_change"
           /\ bookings[last'.pk].status \in {"pending", "confirmed", "in_progress"})
          => ((last'.resp = "validation_error")
                <=> (last'.arg \notin LifecycleSuccessors(bookings[last'.pk].status)))
       /\ (last'.op = "admin_add") => (last'.resp = "ok")]_vars

C10_Witness ==
    /\ last.op = "admin_change"
    /\ last.resp = "validation_error"
    /\ bookings[last.pk].status = "in_progress"
    /\ last.arg = "confirmed"

----------------------------------------------------------------------------
(* Properties of the status changes and of the slot capacity *)

\* the operations that change the status of a stored booking through the API
\* or the bulk actions
StatusOps == {"booking_cancel", "booking_confirm", "confirm_bookings", "cancel_bookings"}

\* C11: every status change made by BookingCancelView.post, BookingConfirmView.post,
\* confirm_bookings or cancel_bookings goes along an edge of the booking
\* lifecycle; a booking in completed, cancelled_by_customer, cancelled_by_dealer,
\* no_show or expired is left in its status.
C11_StatusChangesAreEdges ==
    [][last'.op \in StatusOps =>
        /\ DOMAIN bookings' = DOMAIN bookings
        /\ \A pk \in DOMAIN bookings :
              bookings'[pk].status # bookings[pk].status
                 => bookings'[pk].status \in LifecycleSuccessors(bookings[pk].status)]_vars

\* the bulk cancel has just moved a booking to cancelled_by_dealer
C11_Witness ==
    /\ last.op = "cancel_bookings"
    /\ \E pk \in DOMAIN bookings : bookings[pk].status = "cancelled_by_dealer"

\* the bookings of slot s that hold a place: neither cancelled_by_customer nor
\* cancelled_by_dealer
Holding(bs, s) ==
    {pk \in DOMAIN bs :
        /\ bs[pk].service_slot = s
        /\ bs[pk].status \notin {"cancelled_by_customer", "cancelled_by_dealer"}}

CapacityOps == StatusOps \cup {"booking_post"}

----------------------------------------------------------------------------
(* Properties of the error handling *)

\* C13: a request during which an unexpected exception was raised (not a
\* not-found, permission, validation or integrity error) is answered with
\* HTTP 500.
C13_UnexpectedAnswered500 ==
    (/\ last.op \in ApiOps
     /\ RaisedIn(last.op, last.resp) \notin ExpectedExceptions \cup {None})
        => ResponseStatus(last.op, last.resp) = 500

----------------------------------------------------------------------------
(* Properties of the slot generation and creation *)

\* the dates of the N-day window whose weekday is the template's
MatchingDates(tpl, days) == {d \in 1..days : Weekday(d) = tpl.day_of_week}

\* the rows of the template's service and start time
RowsOf(rows, tpl) ==
    {i \in DOMAIN rows : rows[i].service = tpl.service
                         /\ rows[i].start_time = tpl.start_time}

C20_SlotOfOwnService ==
    (last.op = "slot_post" /\ last.resp = "created")
        => ServiceDealer(created_slots[last.pk].service) = last.user

----------------------------------------------------------------------------
(* Properties of BookingCancelView.post and BookingConfirmView.post *)

\* C15: BookingCancelView.post goes through only for a booking of the
\* requesting customer that is pending or confirmed; a request that is
\* rejected leaves every booking (status, cancellation_reason), every slot's
\* available_capacity and the BookingStatusHistory rows as they were.
C15_RejectedCancelChangesNothing ==
    [][last'.op = "booking_cancel" =>
        /\ last'.resp = "ok" =>
              /\ last'.pk \in DOMAIN bookings
              /\ bookings[last'.pk].customer = last'.user
              /\ bookings[last'.pk].status \in {"pending", "confirmed"}
        /\ last'.resp # "ok" =>
              /\ bookings' = bookings
              /\ slots' = slots
              /\ history' = history]_vars

\* a cancel has just been refused while a booking that cannot be cancelled exists
C15_Witness ==
    /\ last.op = "booking_cancel"
    /\ last.resp = "cannot_cancel"
    /\ \E pk \in DOMAIN bookings : bookings[pk].status = "completed"
    /\ history = <<>>

\* C16: BookingConfirmView.post sets a booking to confirmed only when the
\* requester has a dealer profile, the booking's slot belongs to a service of
\* that dealer and the booking is pending; a request that is rejected leaves
\* every booking as it was.
C16_ConfirmGuarded ==
    [][last'.op = "booking_confirm" =>
        /\ last'.resp = "ok" =>
              /\ HasDealerProfile(last'.user)
              /\ last'.pk \in DOMAIN bookings
              /\ SlotDealer(bookings[last'.pk].service_slot) = last'.user
              /\ bookings[last'.pk].status = "pending"
              /\ bookings' = [bookings EXCEPT ![last'.pk].status = "confirmed"]
        /\ last'.resp # "ok" => bookings' = bookings]_vars

\* the dealer of the slot has just confirmed a pending booking
C16_Witness ==
    /\ last.op = "booking_confirm"
    /\ last.resp = "ok"
    /\ bookings[last.pk].status = "confirmed"
    /\ SlotDealer(bookings[last.pk].service_slot) = last.user

\* C17: a cancel or confirm that goes through appends exactly one
\* BookingStatusHistory row for the booking, whose old_status is the status the
\* booking had before the request and whose new_status is the status it has
\* after it.
C17_HistoryRowPerChange ==
    [][(last'.op \in {"booking_cancel", "booking_confirm"} /\ last'.resp = "ok") =>
        /\ Len(history') = Len(history) + 1
        /\ SubSeq(history', 1, Len(history)) = history
        /\ history'[Len(history')] =
              [booking |-> last'.pk,
               old_status |-> bookings[last'.pk].status,
               new_status |-> bookings'[last'.pk].status]]_vars

----------------------------------------------------------------------------
(* Properties of the availability check, the payout request and the
   registration view *)

PayoutRejections ==
    {"permission_denied", "missing_fields", "invalid_amount", "insufficient_balance"}

\* C23: DealerPayoutListView.post writes something only for a request whose
\* amount is positive and not above the dealer's current_balance; a request
\* rejected for its amount (or earlier) creates no DealerPayout and leaves
\* current_balance and the BalanceTransaction rows unchanged.
C23_BadAmountRejected ==
    [][last'.op = "payout_post" =>
        /\ <<balance, payouts, balance_transactions>>'
              # <<balance, payouts, balance_transactions>>
           => /\ Len(payouts') = Len(payouts) + 1
              /\ payouts'[Len(payouts')].amount > 0
              /\ payouts'[Len(payouts')].amount
                    <= balance[payouts'[Len(payouts')].dealer]
        /\ last'.resp \in PayoutRejections
           => /\ payouts' = payouts
              /\ balance' = balance
              /\ balance_transactions' = balance_transactions]_vars

\* a request has just been refused for an amount above the balance, after an
\* earlier payout was created
C23_Witness ==
    /\ last.op = "payout_post"
    /\ last.resp = "insufficient_balance"
    /\ payouts # <<>>

\* C24: a registration through UserRegistrationView.post that fails leaves the
\* User, CustomerProfile and DealerProfile rows unchanged; the failure raised
\* while the profile is created is answered with the database-error failure
\* response (HTTP 400) and occurs only for user_type 'dealer'.
C24_FailedRegistrationChangesNothing ==
    [][last'.op = "register_view" =>
        /\ last'.resp # "created" =>
              /\ accounts' = accounts
              /\ customer_profiles' = customer_profiles
              /\ dealer_profiles' = dealer_profiles
        /\ last'.resp = "database_error" =>
              /\ last'.arg = "dealer"
              /\ RaisedIn(last'.op, last'.resp) = "IntegrityError"
              /\ ResponseStatus(last'.op, last'.resp) = 400]_vars

\* a dealer registration has just failed with the database error while other
\* users exist
C24_Witness ==
    /\ last.op = "register_view"
    /\ last.resp = "database_error"
    /\ last.arg = "dealer"
    /\ accounts # {}

====
